---- MODULE Spec2Model ----
(***************************************************************************)
(* State-machine model of the MaPoGo Tutor frontend: the Index page, the   *)
(* UploadView, the DashboardView and its Summary, Explain and Quiz tabs.   *)
(* Every async handler is split at its await: the part that runs in the    *)
(* click/key event (up to the fetch call) and the continuation that runs   *)
(* when the fetch settles.  A component's state is discarded when it       *)
(* unmounts; a continuation of an unmounted component changes nothing.     *)
(***************************************************************************)
EXTENDS Integers, Sequences, FiniteSets, Bags

VARIABLES
    appState,          \* Index: 'upload' | 'dashboard'
    selectedFile,      \* UploadView: File | null
    isUploading,       \* UploadView
    dragOver,          \* UploadView
    statusMessage,     \* UploadView
    isError,           \* UploadView
    timers,            \* pending setTimeout(onUploadSuccess, 1000) callbacks
    activeTab,         \* DashboardView
    summary,           \* SummaryTab
    summaryIsLoading,  \* SummaryTab.isLoading
    hasGenerated,      \* SummaryTab
    conceptQuery,      \* ExplainTab (sequence of characters)
    explanation,       \* ExplainTab
    explainIsLoading,  \* ExplainTab.isLoading
    quizDifficulty,    \* QuizTab
    numQuestions,      \* QuizTab
    quiz,              \* QuizTab
    quizIsLoading,     \* QuizTab.isLoading
    visibleAnswers,    \* QuizTab (0-based question indices)
    net,               \* bag of the fetch requests in flight
    uploadSucceeded    \* history: some upload request has returned an OK response

uploadVars == <<selectedFile, isUploading, dragOver, statusMessage, isError>>
summaryVars == <<summary, summaryIsLoading, hasGenerated>>
explainVars == <<conceptQuery, explanation, explainIsLoading>>
quizVars == <<quizDifficulty, numQuestions, quiz, quizIsLoading, visibleAnswers>>
tabVars == <<summaryVars, explainVars, quizVars>>
vars == <<appState, uploadVars, timers, activeTab, tabVars, net, uploadSucceeded>>

----------------------------------------------------------------------------
(* Bounds *)
MaxInFlight == 2     \* fetch requests in flight at once
MaxTimers == 2       \* pending one-second timers
MaxQueryLen == 2     \* characters in the explain question
MaxQuizLen == 2      \* questions in a quiz response

----------------------------------------------------------------------------
(* Helpers *)
Range(s) == {s[i] : i \in 1..Len(s)}

SeqsUpTo(S, n) == UNION {[1..k -> S] : k \in 0..n}

----------------------------------------------------------------------------
(* Files the user can pick or drop *)
NoFile == [name |-> "", type |-> ""]

Files ==
    { [name |-> "a.pdf", type |-> "application/pdf"],
      [name |-> "b.pdf", type |-> "application/pdf"],
      [name |-> "notes.txt", type |-> "text/plain"] }

(* User-visible texts *)
MsgPdfOnly == "Please select a PDF file only."
MsgUploadOk == "PDF uploaded and processed successfully!"
MsgUploadFailed == "Upload failed. Please try again."
MsgNetworkError == "Network error. Please check if the server is running."
MsgSummaryError == "Error generating summary. Please try again."
MsgExplainError == "Error generating explanation. Please try again."

(* Error kinds of the backend's structured error and the text of data.error *)
ErrorKinds == {"no_document", "service_unavailable", "malformed_input"}

ErrorText(kind) ==
    CASE kind = "no_document" -> "No document loaded."
      [] kind = "service_unavailable" -> "Temporary service issue, try again."
      [] kind = "malformed_input" -> "Malformed input."
      [] OTHER -> ""

----------------------------------------------------------------------------
(* Requests in flight *)
NoPayload == [difficulty |-> "", num_questions |-> 0]

Request(endpoint, file, query, payload) ==
    [endpoint |-> endpoint, file |-> file, query |-> query,
     payload |-> payload, live |-> TRUE]

InFlight == BagCardinality(net)

Send(request) == net (+) SetToBag({request})

Remove(request) == net (-) SetToBag({request})

(* A request whose component has unmounted: its continuation changes no    *)
(* state, so only the endpoint of the pending fetch is kept.               *)
Orphaned(endpoint) ==
    [Request(endpoint, NoFile, <<>>, NoPayload) EXCEPT !.live = FALSE]

RECURSIVE Copies(_, _)
Copies(bag, requests) ==
    IF requests = {} THEN 0
    ELSE LET q == CHOOSE q \in requests : TRUE
         IN bag[q] + Copies(bag, requests \ {q})

(* the requests of the components that unmount lose their component *)
Orphan(endpoints) ==
    LET kept == {q \in DOMAIN net : q.endpoint \notin endpoints}
        lost == {q.endpoint : q \in DOMAIN net \ kept}
    IN [q \in kept \cup {Orphaned(e) : e \in lost} |->
           IF q \in kept THEN net[q]
           ELSE Copies(net, {o \in DOMAIN net : o.endpoint = q.endpoint})]

----------------------------------------------------------------------------
(* Responses of the backend, as the frontend sees a fetch settle:          *)
(*   ok      - response.ok and the body parses                             *)
(*   nonok   - !response.ok and the body parses; data.error may be absent  *)
(*   neterr  - fetch rejects                                               *)
(*   badbody - response.json() rejects                                     *)
Response(outcome, kind, error, text, questions) ==
    [outcome |-> outcome, kind |-> kind, error |-> error, text |-> text, quiz |-> questions]

FailureResponses ==
    { Response("nonok", k, ErrorText(k), "", <<>>) : k \in ErrorKinds }
    \cup { Response("nonok", "", "", "", <<>>),
           Response("neterr", "", "", "", <<>>),
           Response("badbody", "", "", "", <<>>) }

UploadResponses == { Response("ok", "", "", "", <<>>) } \cup FailureResponses

----------------------------------------------------------------------------
(* Index *)
IndexInit == appState = "upload"

(* UploadView *)
UploadViewInit ==
    /\ selectedFile = NoFile
    /\ isUploading = FALSE
    /\ dragOver = FALSE
    /\ statusMessage = ""
    /\ isError = FALSE

UploadViewUnmount ==
    /\ selectedFile' = NoFile
    /\ isUploading' = FALSE
    /\ dragOver' = FALSE
    /\ statusMessage' = ""
    /\ isError' = FALSE

dashboardUnchanged == UNCHANGED <<activeTab, tabVars>>

handleFileSelectAnyType(file) ==
    /\ selectedFile' = file
    /\ statusMessage' = ""
    /\ isError' = FALSE

handleFileSelect(file) ==
    IF file.type = "application/pdf"
    THEN /\ selectedFile' = file
         /\ statusMessage' = ""
         /\ isError' = FALSE
    ELSE /\ statusMessage' = MsgPdfOnly
         /\ isError' = TRUE
         /\ UNCHANGED selectedFile

handleDrop(files) ==
    /\ appState = "upload"
    /\ dragOver' = FALSE
    /\ IF Len(files) > 0
       THEN handleFileSelect(files[1])
       ELSE UNCHANGED <<selectedFile, statusMessage, isError>>
    /\ UNCHANGED <<appState, isUploading, timers, net, uploadSucceeded>>
    /\ dashboardUnchanged

handleDragOver ==
    /\ appState = "upload"
    /\ dragOver' = TRUE
    /\ UNCHANGED <<appState, selectedFile, isUploading, statusMessage, isError, timers, net, uploadSucceeded>>
    /\ dashboardUnchanged

handleDragLeave ==
    /\ appState = "upload"
    /\ dragOver' = FALSE
    /\ UNCHANGED <<appState, selectedFile, isUploading, statusMessage, isError, timers, net, uploadSucceeded>>
    /\ dashboardUnchanged

handleFileInputChange(files) ==
    /\ appState = "upload"
    /\ IF Len(files) > 0
       THEN handleFileSelect(files[1])
       ELSE UNCHANGED <<selectedFile, statusMessage, isError>>
    /\ UNCHANGED <<appState, isUploading, dragOver, timers, net, uploadSucceeded>>
    /\ dashboardUnchanged

(* disabled={!selectedFile || isUploading} *)
UploadButtonEnabledNoLoadingCheck == selectedFile # NoFile

UploadButtonEnabled == selectedFile # NoFile /\ ~isUploading

(* handleUpload up to the fetch call *)
handleUpload ==
    /\ appState = "upload"
    /\ UploadButtonEnabled
    /\ InFlight < MaxInFlight
    /\ timers < MaxTimers
    /\ IF selectedFile = NoFile
       THEN UNCHANGED <<isUploading, statusMessage, isError, net>>
       ELSE /\ isUploading' = TRUE
            /\ statusMessage' = ""
            /\ isError' = FALSE
            /\ net' = Send(Request("upload", selectedFile, <<>>, NoPayload))
    /\ UNCHANGED <<appState, selectedFile, dragOver, timers, uploadSucceeded>>
    /\ dashboardUnchanged

(* the value of the loading flag when a handler's continuation ends:       *)
(* finally { setIsLoading(false) } runs on every path                      *)
FinallySkippedOnThrow(r, loading) ==
    IF r.outcome \in {"neterr", "badbody"} THEN loading ELSE FALSE

Finally(r, loading) == FALSE

(* if (response.ok) { ...; setTimeout(() => onUploadSuccess(), 1000) } *)
StartsTimerAlways(r) == TRUE

StartsTimer(r) == r.outcome = "ok"

(* handleUpload from the fetch settling to the end of its finally block *)
handleUploadSettle(req, r) ==
    /\ req.endpoint = "upload"
    /\ net' = Remove(req)
    /\ timers' = IF StartsTimer(r) THEN timers + 1 ELSE timers
    /\ uploadSucceeded' = (uploadSucceeded \/ r.outcome = "ok")
    /\ IF req.live
       THEN /\ statusMessage' =
                CASE r.outcome = "ok" -> MsgUploadOk
                  [] r.outcome = "nonok" -> (IF r.error # "" THEN r.error ELSE MsgUploadFailed)
                  [] OTHER -> MsgNetworkError
            /\ isError' = IF r.outcome = "ok" THEN isError ELSE TRUE
            /\ isUploading' = Finally(r, isUploading)
       ELSE UNCHANGED <<statusMessage, isError, isUploading>>
    /\ UNCHANGED <<appState, selectedFile, dragOver>>
    /\ dashboardUnchanged

(* the timer callback: onUploadSuccess = Index.handleUploadSuccess;        *)
(* the first call replaces the UploadView by the DashboardView             *)
handleUploadSuccess ==
    /\ timers > 0
    /\ timers' = timers - 1
    /\ appState' = "dashboard"
    /\ IF appState = "upload"
       THEN /\ UploadViewUnmount
            /\ net' = Orphan({"upload"})
       ELSE UNCHANGED <<uploadVars, net>>
    /\ UNCHANGED uploadSucceeded
    /\ dashboardUnchanged

----------------------------------------------------------------------------
(* DashboardView: only the active tab is mounted *)
Tabs == {"summary", "explain", "quiz"}

SummaryTabInit ==
    /\ summary = ""
    /\ summaryIsLoading = FALSE
    /\ hasGenerated = FALSE

ExplainTabInit ==
    /\ conceptQuery = <<>>
    /\ explanation = ""
    /\ explainIsLoading = FALSE

QuizTabInit ==
    /\ quizDifficulty = "Medium"
    /\ numQuestions = 5
    /\ quiz = <<>>
    /\ quizIsLoading = FALSE
    /\ visibleAnswers = {}

DashboardViewInit ==
    /\ activeTab = "summary"
    /\ SummaryTabInit
    /\ ExplainTabInit
    /\ QuizTabInit

TabsUnmount ==
    /\ summary' = ""
    /\ summaryIsLoading' = FALSE
    /\ hasGenerated' = FALSE
    /\ conceptQuery' = <<>>
    /\ explanation' = ""
    /\ explainIsLoading' = FALSE
    /\ quizDifficulty' = "Medium"
    /\ numQuestions' = 5
    /\ quiz' = <<>>
    /\ quizIsLoading' = FALSE
    /\ visibleAnswers' = {}

uploadUnchanged == UNCHANGED <<appState, uploadVars, timers, uploadSucceeded>>

setActiveTab(tab) ==
    /\ appState = "dashboard"
    /\ activeTab' = tab
    /\ IF tab # activeTab
       THEN /\ TabsUnmount
            /\ net' = Orphan({activeTab})
       ELSE UNCHANGED <<tabVars, net>>
    /\ uploadUnchanged

----------------------------------------------------------------------------
(* SummaryTab *)
SummaryTexts == {"Summary of the document."}

SummaryResponses == { Response("ok", "", "", t, <<>>) : t \in SummaryTexts } \cup FailureResponses

(* handleGenerateSummary up to the fetch call; the button is disabled={isLoading} *)
handleGenerateSummaryKeepResult ==
    /\ appState = "dashboard" /\ activeTab = "summary"
    /\ ~summaryIsLoading
    /\ InFlight < MaxInFlight
    /\ summaryIsLoading' = TRUE
    /\ net' = Send(Request("summary", NoFile, <<>>, NoPayload))
    /\ UNCHANGED <<summary, hasGenerated, activeTab, explainVars, quizVars>>
    /\ uploadUnchanged

handleGenerateSummary ==
    /\ appState = "dashboard" /\ activeTab = "summary"
    /\ ~summaryIsLoading
    /\ InFlight < MaxInFlight
    /\ summaryIsLoading' = TRUE
    /\ summary' = ""
    /\ net' = Send(Request("summary", NoFile, <<>>, NoPayload))
    /\ UNCHANGED <<hasGenerated, activeTab, explainVars, quizVars>>
    /\ uploadUnchanged

(* the text the try/catch of handleGenerateSummary puts into summary *)
SummaryResult(r) ==
    CASE r.outcome = "ok" -> r.text
      [] r.outcome = "nonok" -> MsgSummaryError
      [] OTHER -> MsgNetworkError

(* handleGenerateSummary from the fetch settling to the end of its finally block *)
handleGenerateSummarySettle(req, r) ==
    /\ req.endpoint = "summary"
    /\ net' = Remove(req)
    /\ IF req.live
       THEN /\ summary' = SummaryResult(r)
            /\ hasGenerated' = IF r.outcome = "ok" THEN TRUE ELSE hasGenerated
            /\ summaryIsLoading' = Finally(r, summaryIsLoading)
       ELSE UNCHANGED summaryVars
    /\ UNCHANGED <<activeTab, explainVars, quizVars>>
    /\ uploadUnchanged

----------------------------------------------------------------------------
(* ExplainTab *)
Chars == {" ", "a"}

IsSpace(c) == c = " "

Keys == {"Enter", "a"}

ExplanationTexts == {"Explanation grounded in the document."}

ExplainResponses == { Response("ok", "", "", t, <<>>) : t \in ExplanationTexts } \cup FailureResponses

RECURSIVE TrimStart(_)
TrimStart(s) ==
    IF s = <<>> THEN <<>>
    ELSE IF IsSpace(Head(s)) THEN TrimStart(Tail(s)) ELSE s

RECURSIVE TrimEnd(_)
TrimEnd(s) ==
    IF s = <<>> THEN <<>>
    ELSE IF IsSpace(s[Len(s)]) THEN TrimEnd(SubSeq(s, 1, Len(s) - 1)) ELSE s

(* String.prototype.trim *)
Trim(s) == TrimEnd(TrimStart(s))

setConceptQuery(value) ==
    /\ appState = "dashboard" /\ activeTab = "explain"
    /\ conceptQuery' = value
    /\ UNCHANGED <<explanation, explainIsLoading, activeTab, summaryVars, quizVars, net>>
    /\ uploadUnchanged

(* if (!conceptQuery.trim()) return; *)
BlankQueryNoCheck(query) == FALSE

BlankQuery(query) == Trim(query) = <<>>

(* handleExplain up to the fetch call *)
handleExplain ==
    IF BlankQuery(conceptQuery)
    THEN UNCHANGED <<explanation, explainIsLoading, net>>
    ELSE /\ InFlight < MaxInFlight
         /\ explainIsLoading' = TRUE
         /\ explanation' = ""
         /\ net' = Send(Request("explain", NoFile, conceptQuery, NoPayload))

(* the 'Get Answer' button: disabled={isLoading || !conceptQuery.trim()} *)
ExplainButtonEnabled == ~(explainIsLoading \/ Trim(conceptQuery) = <<>>)

clickExplain ==
    /\ appState = "dashboard" /\ activeTab = "explain"
    /\ ExplainButtonEnabled
    /\ handleExplain
    /\ UNCHANGED <<conceptQuery, activeTab, summaryVars, quizVars>>
    /\ uploadUnchanged

handleKeyPress(key, shiftKey) ==
    /\ appState = "dashboard" /\ activeTab = "explain"
    /\ IF key = "Enter" /\ ~shiftKey
       THEN /\ handleExplain
       ELSE /\ UNCHANGED <<explanation, explainIsLoading, net>>
    /\ UNCHANGED <<conceptQuery, activeTab, summaryVars, quizVars>>
    /\ uploadUnchanged

(* the text the try/catch of handleExplain puts into explanation *)
ExplainResult(r) ==
    CASE r.outcome = "ok" -> r.text
      [] r.outcome = "nonok" -> MsgExplainError
      [] OTHER -> MsgNetworkError

(* handleExplain from the fetch settling to the end of its finally block *)
handleExplainSettle(req, r) ==
    /\ req.endpoint = "explain"
    /\ net' = Remove(req)
    /\ IF req.live
       THEN /\ explanation' = ExplainResult(r)
            /\ explainIsLoading' = Finally(r, explainIsLoading)
       ELSE UNCHANGED <<explanation, explainIsLoading>>
    /\ UNCHANGED <<conceptQuery, activeTab, summaryVars, quizVars>>
    /\ uploadUnchanged

----------------------------------------------------------------------------
(* QuizTab *)
Difficulties == {"Easy", "Medium", "Hard"}

(* values of the number input's e.target.value *)
NumberInputs ==
    { <<>>, <<"0">>, <<"1">>, <<"2", "0">>, <<"2", "1">>, <<"-", "3">>, <<"1", ".", "5">> }

Digits == <<"0", "1", "2", "3", "4", "5", "6", "7", "8", "9">>

IsDigit(c) == \E d \in 1..10 : Digits[d] = c

DigitValue(c) == (CHOOSE d \in 1..10 : Digits[d] = c) - 1

NaN == [nan |-> TRUE, value |-> 0]

Number(n) == [nan |-> FALSE, value |-> n]

RECURSIVE ParseDigits(_, _)
ParseDigits(s, acc) ==
    IF s = <<>> \/ ~IsDigit(Head(s)) THEN acc
    ELSE ParseDigits(Tail(s), 10 * acc + DigitValue(Head(s)))

(* parseInt(string): optional sign, then the longest prefix of decimal digits *)
parseInt(s) ==
    LET t == TrimStart(s)
        neg == t # <<>> /\ Head(t) = "-"
        body == IF t # <<>> /\ Head(t) \in {"-", "+"} THEN Tail(t) ELSE t
    IN IF body = <<>> \/ ~IsDigit(Head(body)) THEN NaN
       ELSE Number(IF neg THEN 0 - ParseDigits(body, 0) ELSE ParseDigits(body, 0))

RECURSIVE NatToString(_)
NatToString(n) ==
    IF n < 10 THEN <<Digits[n + 1]>>
    ELSE NatToString(n \div 10) \o <<Digits[(n % 10) + 1]>>

(* Number.prototype.toString of an integer *)
toString(n) == IF n < 0 THEN <<"-">> \o NatToString(0 - n) ELSE NatToString(n)

setQuizDifficulty(value) ==
    /\ appState = "dashboard" /\ activeTab = "quiz"
    /\ quizDifficulty' = value
    /\ UNCHANGED <<numQuestions, quiz, quizIsLoading, visibleAnswers, activeTab, summaryVars, explainVars, net>>
    /\ uploadUnchanged

(* onChange={(e) => setNumQuestions(parseInt(e.target.value) || 5)} *)
setNumQuestions(value) ==
    /\ appState = "dashboard" /\ activeTab = "quiz"
    /\ numQuestions' =
         LET n == parseInt(value) IN IF n.nan \/ n.value = 0 THEN 5 ELSE n.value
    /\ UNCHANGED <<quizDifficulty, quiz, quizIsLoading, visibleAnswers, activeTab, summaryVars, explainVars, net>>
    /\ uploadUnchanged

(* body: JSON.stringify({difficulty, num_questions: parseInt(numQuestions.toString())}) *)
QuizPayload ==
    [difficulty |-> quizDifficulty, num_questions |-> parseInt(toString(numQuestions)).value]

(* handleGenerateQuiz up to the fetch call; the button is disabled={isLoading} *)
handleGenerateQuizKeepAnswers ==
    /\ appState = "dashboard" /\ activeTab = "quiz"
    /\ ~quizIsLoading
    /\ InFlight < MaxInFlight
    /\ quizIsLoading' = TRUE
    /\ quiz' = <<>>
    /\ net' = Send(Request("quiz", NoFile, <<>>, QuizPayload))
    /\ UNCHANGED <<quizDifficulty, numQuestions, visibleAnswers, activeTab, summaryVars, explainVars>>
    /\ uploadUnchanged

handleGenerateQuiz ==
    /\ appState = "dashboard" /\ activeTab = "quiz"
    /\ ~quizIsLoading
    /\ InFlight < MaxInFlight
    /\ quizIsLoading' = TRUE
    /\ quiz' = <<>>
    /\ visibleAnswers' = {}
    /\ net' = Send(Request("quiz", NoFile, <<>>, QuizPayload))
    /\ UNCHANGED <<quizDifficulty, numQuestions, activeTab, summaryVars, explainVars>>
    /\ uploadUnchanged

(* The backend's quiz operation.  The LLM may propose any candidate question; *)
(* the Generator returns only questions whose answer is one of the options,   *)
(* and the request is rejected unless its parameters are valid.               *)
CandidateAnswers == {"A", "C"}

Question(i, answer) ==
    [question |-> i, options |-> <<"A", "B">>, answer |-> answer]

(* the i-th element of a candidate quiz is some candidate for question i *)
CandidateQuizzes ==
    UNION { { [i \in 1..k |-> Question(i, answers[i])] : answers \in [1..k -> CandidateAnswers] } :
            k \in 1..MaxQuizLen }

ValidQuizQuestionNoCheck(q) == TRUE

ValidQuizQuestion(q) == q.answer \in Range(q.options)

ValidQuizParams(payload) ==
    /\ payload.difficulty \in Difficulties
    /\ payload.num_questions \in 1..20

GeneratedQuizzes(n) ==
    { qs \in CandidateQuizzes :
        /\ Len(qs) <= n
        /\ \A i \in 1..Len(qs) : ValidQuizQuestion(qs[i]) }

QuizResponses(payload) ==
    (IF ValidQuizParams(payload)
     THEN { Response("ok", "", "", "", qs) : qs \in GeneratedQuizzes(payload.num_questions) }
     ELSE {})
    \cup FailureResponses

(* handleGenerateQuiz from the fetch settling to the end of its finally block *)
handleGenerateQuizSettle(req, r) ==
    /\ req.endpoint = "quiz"
    /\ net' = Remove(req)
    /\ IF req.live
       THEN /\ quiz' = IF r.outcome = "ok" THEN r.quiz ELSE quiz
            /\ quizIsLoading' = Finally(r, quizIsLoading)
       ELSE UNCHANGED <<quiz, quizIsLoading>>
    /\ UNCHANGED <<quizDifficulty, numQuestions, visibleAnswers, activeTab, summaryVars, explainVars>>
    /\ uploadUnchanged

(* newVisibleAnswers: a copy of the set with questionIndex deleted if it    *)
(* has it, added otherwise                                                  *)
ToggledOnlyShow(answers, questionIndex) == answers \cup {questionIndex}

Toggled(answers, questionIndex) ==
    IF questionIndex \in answers
    THEN answers \ {questionIndex}
    ELSE answers \cup {questionIndex}

(* the Show/Hide Answer button of question questionIndex, rendered only when *)
(* the quiz is displayed                                                     *)
toggleAnswer(questionIndex) ==
    /\ appState = "dashboard" /\ activeTab = "quiz"
    /\ ~quizIsLoading
    /\ questionIndex \in 0..(Len(quiz) - 1)
    /\ visibleAnswers' = Toggled(visibleAnswers, questionIndex)
    /\ UNCHANGED <<quizDifficulty, numQuestions, quiz, quizIsLoading, activeTab, summaryVars, explainVars, net>>
    /\ uploadUnchanged

----------------------------------------------------------------------------
(* What each tab renders below its controls *)
Spinner == "spinner"

Placeholder == "placeholder"

SummaryView ==
    IF summaryIsLoading THEN Spinner
    ELSE IF summary # "" THEN summary ELSE Placeholder

ExplainView ==
    IF explainIsLoading THEN Spinner
    ELSE IF explanation # "" THEN explanation ELSE Placeholder

QuizView ==
    IF quizIsLoading THEN Spinner
    ELSE IF Len(quiz) > 0 THEN "quiz" ELSE Placeholder

----------------------------------------------------------------------------
Init ==
    /\ IndexInit
    /\ UploadViewInit
    /\ DashboardViewInit
    /\ timers = 0
    /\ net = EmptyBag
    /\ uploadSucceeded = FALSE

FileLists == SeqsUpTo(Files, 1)

Next ==
    \/ \E files \in FileLists : handleDrop(files)
    \/ handleDragOver
    \/ handleDragLeave
    \/ \E files \in FileLists : handleFileInputChange(files)
    \/ handleUpload
    \/ \E req \in BagToSet(net) : \E r \in UploadResponses : handleUploadSettle(req, r)
    \/ handleUploadSuccess
    \/ \E tab \in Tabs : setActiveTab(tab)
    \/ handleGenerateSummary
    \/ \E req \in BagToSet(net) : \E r \in SummaryResponses : handleGenerateSummarySettle(req, r)
    \/ \E value \in SeqsUpTo(Chars, MaxQueryLen) : setConceptQuery(value)
    \/ clickExplain
    \/ \E key \in Keys : \E shiftKey \in BOOLEAN : handleKeyPress(key, shiftKey)
    \/ \E req \in BagToSet(net) : \E r \in ExplainResponses : handleExplainSettle(req, r)
    \/ \E value \in Difficulties : setQuizDifficulty(value)
    \/ \E value \in NumberInputs : setNumQuestions(value)
    \/ handleGenerateQuiz
    \/ \E req \in BagToSet(net) : \E r \in QuizResponses(req.payload) : handleGenerateQuizSettle(req, r)
    \/ \E questionIndex \in 0..(MaxQuizLen - 1) : toggleAnswer(questionIndex)

Spec == Init /\ [][Next]_vars

(* Every fetch that was sent settles: the requests in flight are answered, *)
(* rejected or time out in the browser.                                    *)
Settle ==
    \E req \in BagToSet(net) :
        \/ \E r \in UploadResponses : handleUploadSettle(req, r)
        \/ \E r \in SummaryResponses : handleGenerateSummarySettle(req, r)
        \/ \E r \in ExplainResponses : handleExplainSettle(req, r)
        \/ \E r \in QuizResponses(req.payload) : handleGenerateQuizSettle(req, r)

FairSpec == Spec /\ WF_vars(Settle)

----------------------------------------------------------------------------
(* Properties *)

(* the requests of the mounted component that are in flight *)
RequestsTo(endpoint) == {req \in BagToSet(net) : req.endpoint = endpoint /\ req.live}

RequestsInFlight(endpoint) == {req \in BagToSet(net) : req.endpoint = endpoint}

UploadsInFlight == Copies(net, RequestsInFlight("upload"))

(* C1: every quiz request the Quiz tab has in flight carries a             *)
(* num_questions in [1, 20]; a value of 0, a negative value or a value      *)
(* above 20 is never sent.                                                  *)
C1_QuizRequestInRange ==
    \A req \in RequestsTo("quiz") : req.payload.num_questions \in 1..20

(* C2: every failed summary, explain or quiz request of the mounted tab     *)
(* leaves the tab showing a failure message: after the continuation ran,    *)
(* the tab shows neither the spinner nor the placeholder it shows when no   *)
(* request was made.                                                        *)
C2_FailureAlwaysShown ==
    [][\A req \in BagToSet(net) : \A r \in FailureResponses :
          /\ (req.live /\ handleGenerateSummarySettle(req, r))
                => SummaryView' \notin {Spinner, Placeholder}
          /\ (req.live /\ handleExplainSettle(req, r))
                => ExplainView' \notin {Spinner, Placeholder}
          /\ (req.live /\ handleGenerateQuizSettle(req, r))
                => QuizView' \notin {Spinner, Placeholder}]_vars

(* C3: the text a summary or explain tab shows after a non-OK response     *)
(* depends on the kind of error the backend reported: it is not the text    *)
(* the tab shows for a non-OK response of any other kind.                   *)
NonOkResponses == {r \in FailureResponses : r.outcome = "nonok" /\ r.kind \in ErrorKinds}

C3_FailureTextDependsOnKind ==
    [][\A req \in BagToSet(net) : \A r \in NonOkResponses :
          /\ (req.live /\ handleGenerateSummarySettle(req, r))
                => \A other \in NonOkResponses :
                      other.kind # r.kind => SummaryView' # SummaryResult(other)
          /\ (req.live /\ handleExplainSettle(req, r))
                => \A other \in NonOkResponses :
                      other.kind # r.kind => ExplainView' # ExplainResult(other)]_vars

(* C4: when an upload attempt of the mounted upload view completes, the     *)
(* status message is non-empty and isError is set exactly when the attempt  *)
(* failed.                                                                  *)
C4_UploadStatusMatchesOutcome ==
    [][\A req \in BagToSet(net) : \A r \in UploadResponses :
          (req.live /\ handleUploadSettle(req, r))
             => /\ statusMessage' # ""
                /\ isError' <=> (r.outcome # "ok")]_vars

(* C5: every question in the Quiz tab's state has its answer among its      *)
(* options.                                                                 *)
C5_AnswerAmongOptions ==
    \A i \in 1..Len(quiz) : quiz[i].answer \in Range(quiz[i].options)

C5_Witness ==
    /\ QuizView = "quiz"
    /\ Len(quiz) = MaxQuizLen
    /\ visibleAnswers # {}

(* C6: every explain request the Explain tab has in flight carries a       *)
(* question that is non-empty after trimming, and invoking the explain action (button or Enter) while  *)
(* the question is empty or whitespace sends nothing and leaves the         *)
(* explanation and the loading flag unchanged.                              *)
C6_ExplainNeedsQuestion ==
    /\ [](\A req \in RequestsTo("explain") : Trim(req.query) # <<>>)
    /\ [][(/\ Trim(conceptQuery) = <<>>
           /\ \/ clickExplain
              \/ \E key \in Keys : \E shiftKey \in BOOLEAN : handleKeyPress(key, shiftKey))
             => UNCHANGED <<net, explanation, explainIsLoading>>]_vars

C6_Witness ==
    /\ activeTab = "explain"
    /\ conceptQuery # <<>>
    /\ Trim(conceptQuery) = <<>>
    /\ \E req \in RequestsTo("explain") : req.live /\ Trim(req.query) # req.query

(* C7: the dashboard is shown only after some upload request has returned   *)
(* an OK response.                                                          *)
C7_DashboardOnlyAfterOkUpload == appState = "dashboard" => uploadSucceeded

C7_Witness == appState = "dashboard" /\ activeTab = "quiz"

(* C8: at most one upload request is in flight at any time.                 *)
C8_OneUploadInFlight == UploadsInFlight <= 1

C8_Witness ==
    /\ appState = "upload"
    /\ UploadsInFlight = 1
    /\ isUploading
    /\ timers > 0

(* C9: while a tab's loading flag is set, its result state is empty.        *)
C9_NoResultWhileLoading ==
    /\ summaryIsLoading => summary = ""
    /\ explainIsLoading => explanation = ""
    /\ quizIsLoading => (quiz = <<>> /\ visibleAnswers = {})

C9_Witness == summaryIsLoading /\ hasGenerated

(* C10: every view that is loading eventually stops loading, once the       *)
(* fetches in flight settle, whatever their outcome.  At most one of the    *)
(* four components is mounted, so at most one of the flags is set.          *)
AnyLoading == isUploading \/ summaryIsLoading \/ explainIsLoading \/ quizIsLoading

C10_LoadingEnds == AnyLoading ~> ~AnyLoading

C10_Witness ==
    /\ appState = "upload"
    /\ ~isUploading
    /\ isError
    /\ statusMessage = MsgNetworkError

(* C11: the selected file is absent or a PDF, every upload request of the   *)
(* upload view carries a PDF, and selecting or dropping a non-PDF file sets *)
(* the error message 'Please select a PDF file only.' and leaves the        *)
(* selected file unchanged.                                                 *)
IsPdf(file) == file.type = "application/pdf"

C11_OnlyPdfSelected ==
    /\ [](selectedFile = NoFile \/ IsPdf(selectedFile))
    /\ [](\A req \in RequestsTo("upload") : IsPdf(req.file))
    /\ [][\A files \in FileLists :
            (/\ Len(files) > 0
             /\ ~IsPdf(files[1])
             /\ (handleDrop(files) \/ handleFileInputChange(files)))
               => /\ statusMessage' = MsgPdfOnly
                  /\ isError'
                  /\ selectedFile' = selectedFile]_vars

C11_Witness ==
    /\ IsPdf(selectedFile)
    /\ statusMessage = MsgPdfOnly
    /\ isError
    /\ RequestsTo("upload") # {}

(* C12: while an upload request is in flight the application does not show *)
(* the dashboard, also across the one-second delay between a successful     *)
(* upload and the switch to the dashboard.                                  *)
C12_NoDashboardDuringUpload == UploadsInFlight > 0 => appState = "upload"

(* C13: in each tab the loading flag is set whenever a request of the       *)
(* mounted tab is in flight, and no second request of the tab is started    *)
(* while one is in flight.                                                  *)
TabIsLoading(tab) ==
    CASE tab = "summary" -> summaryIsLoading
      [] tab = "explain" -> explainIsLoading
      [] OTHER -> quizIsLoading

C13_OneRequestPerTab ==
    \A tab \in Tabs :
        /\ RequestsTo(tab) # {} => TabIsLoading(tab)
        /\ Copies(net, RequestsTo(tab)) <= 1

(* C14: the revealed answers are indices of questions of the displayed     *)
(* quiz (each below quiz.length), and whenever the quiz changes no answer   *)
(* is revealed.                                                             *)
QuestionIndices == 0..(Len(quiz) - 1)

C14_RevealedAnswersInQuiz ==
    /\ [](visibleAnswers \subseteq QuestionIndices)
    /\ [][quiz' # quiz => visibleAnswers' = {}]_vars

C14_Witness ==
    /\ QuizView = "quiz"
    /\ Len(quiz) = MaxQuizLen
    /\ visibleAnswers = QuestionIndices

(* C15: toggleAnswer(i) flips the revealed state of question i and of no    *)
(* other question, leaves the quiz, the difficulty, the question count and  *)
(* the loading flag unchanged, and applied twice restores the revealed set. *)
C15_ToggleFlipsOnlyOne ==
    [][\A i \in 0..(MaxQuizLen - 1) :
          toggleAnswer(i)
            => /\ (i \in visibleAnswers') <=> (i \notin visibleAnswers)
               /\ \A j \in QuestionIndices \ {i} :
                     (j \in visibleAnswers') <=> (j \in visibleAnswers)
               /\ UNCHANGED <<quiz, quizDifficulty, numQuestions, quizIsLoading>>
               /\ Toggled(visibleAnswers', i) = visibleAnswers]_vars

C15_Witness ==
    /\ QuizView = "quiz"
    /\ Len(quiz) = MaxQuizLen
    /\ visibleAnswers = {MaxQuizLen - 1}
    /\ numQuestions # 5
    /\ quizDifficulty # "Medium"

====
